---- MODULE Spec2Model ----
(***************************************************************************)
(* Till (cash drawer) with bounded-stock change making, a per-day          *)
(* transaction log and single-step undo: change_maker.py and storage.py.   *)
(***************************************************************************)
EXTENDS Integers, Sequences, FiniteSets, TLC

\* ---------------------------------------------------------------- constants
NOTE_DENOMS == <<20000, 10000, 5000, 2000, 1000, 500, 200>>
COIN_MIN_UNIT == 5

DenomSet == {NOTE_DENOMS[i] : i \in 1..Len(NOTE_DENOMS)}

\* ------------------------------------------------------- Optional / dicts
None == [ok |-> FALSE]
Some(v) == [ok |-> TRUE, val |-> v]

Min(a, b) == IF a < b THEN a ELSE b

\* dict.get(k, 0)
Get(dict, k) == IF k \in DOMAIN dict THEN dict[k] ELSE 0

\* dict[k] = v
Put(dict, k, v) == [x \in (DOMAIN dict) \cup {k} |-> IF x = k THEN v ELSE dict[x]]

\* dict.pop(k, None)
Pop(dict, k) == [x \in (DOMAIN dict) \ {k} |-> dict[x]]

EmptyDict == [x \in {} |-> 0]

\* str(d) and int(k) for the string keys of the JSON payloads
StrKey(d) == <<"str", d>>
IntKey(k) == k[2]

RECURSIVE SumNotes(_, _)
\* sum(d * c for d, c in notes.items()), over the keys in S
SumNotes(notes, S) ==
    IF S = {} THEN 0
    ELSE LET d == CHOOSE x \in S : TRUE
         IN d * notes[d] + SumNotes(notes, S \ {d})

NotesValue(notes) == SumNotes(notes, DOMAIN notes)

\* ------------------------------------------------------------------ Drawer
\* Drawer(): every denomination 0, apro 0
EmptyDrawer == [notes |-> [d \in DenomSet |-> 0], apro |-> 0]

total(drawer) == NotesValue(drawer.notes) + drawer.apro

\* add_notes assigning the count instead of adding it
add_notes_overwrite(notes, breakdown) ==
    [d \in (DOMAIN notes) \cup (DOMAIN breakdown) |->
        IF d \in DOMAIN breakdown THEN breakdown[d] ELSE Get(notes, d)]

add_notes(notes, breakdown) ==
    [d \in (DOMAIN notes) \cup (DOMAIN breakdown) |->
        Get(notes, d) + Get(breakdown, d)]

\* A Python dict is iterated in the order its keys were inserted; a function
\* has no such order, so the operators that iterate a dict take the order as a
\* sequence of its keys.
\* every order in which the keys of dict can be iterated
Orders(dict) ==
    LET n == Cardinality(DOMAIN dict)
    IN {s \in [1..n -> DOMAIN dict] : \A i, j \in 1..n : i # j => s[i] # s[j]}

RECURSIVE DescSeq(_)
\* the elements of S, largest first
DescSeq(S) ==
    IF S = {} THEN <<>>
    ELSE LET m == CHOOSE x \in S : \A y \in S : y <= x
         IN <<m>> \o DescSeq(S \ {m})

\* the keys of a dict that was filled in the order of NOTE_DENOMS
denom_order(dict) == DescSeq(DOMAIN dict)

RECURSIVE decrement_loop(_, _, _, _)
\* second loop of remove_notes: self.notes[d] -= c for the keys in order from
\* position i on; a key the Drawer lacks raises KeyError and the decrements
\* made before it stay
decrement_loop(notes, breakdown, order, i) ==
    IF i > Len(order) THEN Some(notes)
    ELSE LET d == order[i]
         IN IF d \notin DOMAIN notes
            THEN [ok |-> FALSE, error |-> "KeyError", val |-> notes]
            ELSE decrement_loop([notes EXCEPT ![d] = @ - breakdown[d]],
                                breakdown, order, i + 1)

\* remove_notes without the first loop
remove_notes_unchecked(notes, breakdown, order) ==
    decrement_loop(notes, breakdown, order, 1)

\* Drawer.remove_notes on a breakdown iterated in the given order: ok and the
\* counts afterwards, or the exception raised and the counts left behind.
\* ValueError is raised before any decrement if one count is short.
remove_notes(notes, breakdown, order) ==
    IF \E d \in DOMAIN breakdown : Get(notes, d) < breakdown[d]
    THEN [ok |-> FALSE, error |-> "ValueError", val |-> notes]
    ELSE decrement_loop(notes, breakdown, order, 1)

add_apro(apro, amount) ==
    IF amount < 0 THEN None ELSE Some(apro + amount)

remove_apro(apro, amount) ==
    IF amount < 0 THEN None
    ELSE IF apro < amount THEN None
    ELSE Some(apro - amount)

\* ------------------------------------------------------ phase 1: notes only
RECURSIVE search(_, _, _, _)
RECURSIVE search_loop(_, _, _, _, _)
search(idx, remaining, cur, available) ==
    IF remaining = 0 THEN Some(cur)
    ELSE IF idx > Len(NOTE_DENOMS) THEN None
    ELSE LET d == NOTE_DENOMS[idx]
             max_use == Min(remaining \div d, Get(available, d))
         IN search_loop(idx, remaining, cur, available, max_use)

\* search_loop without the loop: only the largest count is tried
search_loop_no_backtrack(idx, remaining, cur, available, k) ==
    IF k < 0 THEN None
    ELSE LET d == NOTE_DENOMS[idx]
             cur2 == IF k # 0 THEN Put(cur, d, k) ELSE Pop(cur, d)
         IN search(idx + 1, remaining - d * k, cur2, available)

RECURSIVE search_loop_from_zero(_, _, _, _, _, _)
\* the loop of search counting up: for k in range(0, max_use + 1)
search_loop_from_zero(idx, remaining, cur, available, max_use, k) ==
    IF k > max_use THEN None
    ELSE LET d == NOTE_DENOMS[idx]
             cur2 == IF k # 0 THEN Put(cur, d, k) ELSE Pop(cur, d)
             res == search(idx + 1, remaining - d * k, cur2, available)
         IN IF res.ok THEN res
            ELSE search_loop_from_zero(idx, remaining, cur, available, max_use, k + 1)

\* search_loop trying the smallest count first
search_loop_ascending(idx, remaining, cur, available, k) ==
    search_loop_from_zero(idx, remaining, cur, available, k, 0)

\* for k in range(max_use, -1, -1)
search_loop(idx, remaining, cur, available, k) ==
    IF k < 0 THEN None
    ELSE LET d == NOTE_DENOMS[idx]
             cur2 == IF k # 0 THEN Put(cur, d, k) ELSE Pop(cur, d)
             res == search(idx + 1, remaining - d * k, cur2, available)
         IN IF res.ok THEN res
            ELSE search_loop(idx, remaining, cur, available, k - 1)

bounded_change_notes(amount, available) == search(1, amount, EmptyDict, available)

\* ------------------------------------------- phase 2: notes + apro fallback
RECURSIVE greedy_notes_stock_only(_, _, _, _)
\* greedy_notes taking the whole stock of a denomination that fits once
greedy_notes_stock_only(idx, remaining, notes_used, notes) ==
    IF idx > Len(NOTE_DENOMS) THEN [remaining |-> remaining, notes_used |-> notes_used]
    ELSE LET d == NOTE_DENOMS[idx]
             use == IF remaining >= d THEN Get(notes, d) ELSE 0
         IN IF use > 0
            THEN greedy_notes_stock_only(idx + 1, remaining - d * use,
                                         [notes_used EXCEPT ![d] = use], notes)
            ELSE greedy_notes_stock_only(idx + 1, remaining, notes_used, notes)

RECURSIVE greedy_notes(_, _, _, _)
\* the greedy pass: largest denomination first, as many as stock allows
greedy_notes(idx, remaining, notes_used, notes) ==
    IF idx > Len(NOTE_DENOMS) THEN [remaining |-> remaining, notes_used |-> notes_used]
    ELSE LET d == NOTE_DENOMS[idx]
             use == Min(remaining \div d, Get(notes, d))
         IN IF use > 0
            THEN greedy_notes(idx + 1, remaining - d * use,
                              [notes_used EXCEPT ![d] = use], notes)
            ELSE greedy_notes(idx + 1, remaining, notes_used, notes)

\* apro_covers without the stock test
apro_covers_unit_only(remaining, apro) ==
    remaining % COIN_MIN_UNIT = 0

\* apro_covers without the unit test
apro_covers_stock_only(remaining, apro) ==
    apro >= remaining

\* remaining % COIN_MIN_UNIT == 0 and drawer.apro >= remaining
apro_covers(remaining, apro) ==
    remaining % COIN_MIN_UNIT = 0 /\ apro >= remaining

\* {d: c for d, c in notes_used.items() if c > 0}
positive_items(notes_used) ==
    [d \in {x \in DOMAIN notes_used : notes_used[x] > 0} |-> notes_used[d]]

RECURSIVE relax_notes_subtract(_, _, _, _)
\* relax_notes with the piece given back taken off the remainder: remaining -= d
relax_notes_subtract(idx, remaining, notes_used, apro) ==
    IF idx > Len(NOTE_DENOMS) THEN None
    ELSE LET d == NOTE_DENOMS[idx]
         IN IF notes_used[d] > 0
            THEN LET used2 == [notes_used EXCEPT ![d] = notes_used[d] - 1]
                     rem2 == remaining - d
                 IN IF apro_covers(rem2, apro)
                    THEN Some([notes_given |-> positive_items(used2),
                               apro_given |-> rem2])
                    ELSE relax_notes_subtract(idx, rem2, used2, apro)
            ELSE relax_notes_subtract(idx + 1, remaining, notes_used, apro)

RECURSIVE relax_notes(_, _, _, _)
\* the step-back loop: for d in sorted(NOTE_DENOMS, reverse=True):
\*                        while notes_used[d] > 0: give one d back and retest
relax_notes(idx, remaining, notes_used, apro) ==
    IF idx > Len(NOTE_DENOMS) THEN None
    ELSE LET d == NOTE_DENOMS[idx]
         IN IF notes_used[d] > 0
            THEN LET used2 == [notes_used EXCEPT ![d] = notes_used[d] - 1]
                     rem2 == remaining + d
                 IN IF apro_covers(rem2, apro)
                    THEN Some([notes_given |-> positive_items(used2),
                               apro_given |-> rem2])
                    ELSE relax_notes(idx, rem2, used2, apro)
            ELSE relax_notes(idx + 1, remaining, notes_used, apro)

RECURSIVE relax_order(_, _, _, _)
\* the denominations of the pieces the step-back loop gives back, in the order
\* it gives them back, up to the piece after which the pool test passes
relax_order(idx, remaining, notes_used, apro) ==
    IF idx > Len(NOTE_DENOMS) THEN <<>>
    ELSE LET d == NOTE_DENOMS[idx]
         IN IF notes_used[d] > 0
            THEN LET used2 == [notes_used EXCEPT ![d] = notes_used[d] - 1]
                     rem2 == remaining + d
                 IN IF apro_covers(rem2, apro)
                    THEN <<d>>
                    ELSE <<d>> \o relax_order(idx, rem2, used2, apro)
            ELSE relax_order(idx + 1, remaining, notes_used, apro)

mixed_change(change, notes, apro) ==
    LET g == greedy_notes(1, change, [d \in DenomSet |-> 0], notes)
    IN IF apro_covers(g.remaining, apro)
       THEN Some([notes_given |-> positive_items(g.notes_used),
                  apro_given |-> g.remaining])
       ELSE relax_notes(1, g.remaining, g.notes_used, apro)

\* change_engine trying the split with the pool before the notes-only search
change_engine_mixed_first(change, notes, apro) ==
    LET mixed == mixed_change(change, notes, apro)
        notes_only == bounded_change_notes(change, notes)
    IN IF mixed.ok THEN mixed
       ELSE IF notes_only.ok
       THEN Some([notes_given |-> notes_only.val, apro_given |-> 0])
       ELSE None

\* the change engine of main(): phase 1, then phase 2
change_engine(change, notes, apro) ==
    LET notes_only == bounded_change_notes(change, notes)
    IN IF notes_only.ok
       THEN Some([notes_given |-> notes_only.val, apro_given |-> 0])
       ELSE mixed_change(change, notes, apro)

\* ------------------------------------------------------------- parse_tender
\* A tender text is modelled by its lexical shape:
\*   [kind |-> "empty"]                 ""
\*   [kind |-> "vissza"]                ":vissza"
\*   [kind |-> "bare", val |-> n]       digits only
\*   [kind |-> "parts", parts |-> seq]  comma/semicolon separated items, each
\*        <<"apro", n>>  |  <<"pair", denom, cnt>>  |  <<"bad">>
RECURSIVE parse_parts(_, _, _, _)
parse_parts(parts, i, notes, apro) ==
    IF i > Len(parts) THEN [ok |-> TRUE, notes |-> notes, apro |-> apro]
    ELSE LET p == parts[i]
         IN IF p[1] = "apro"
            THEN parse_parts(parts, i + 1, notes, apro + p[2])
            ELSE IF p[1] # "pair" THEN None
            ELSE IF p[3] < 0 THEN None
            ELSE IF p[2] \in DenomSet
            THEN parse_parts(parts, i + 1, Put(notes, p[2], Get(notes, p[2]) + p[3]), apro)
            ELSE parse_parts(parts, i + 1, notes, apro + p[2] * p[3])

parse_tender(text) ==
    IF text.kind = "empty" THEN [ok |-> TRUE, notes |-> EmptyDict, apro |-> 0]
    ELSE IF text.kind = "bare"
    THEN IF text.val \in DenomSet
         THEN [ok |-> TRUE, notes |-> Put(EmptyDict, text.val, 1), apro |-> 0]
         ELSE [ok |-> TRUE, notes |-> EmptyDict, apro |-> text.val]
    ELSE IF text.kind = "parts" THEN parse_parts(text.parts, 1, EmptyDict, 0)
    ELSE None

\* sum(d * c for d, c in tender_notes.items()) + tender_apro
tender_total_of(p) == NotesValue(p.notes) + p.apro

\* --------------------------------------------------------------- storage.py
\* {str(d): c} from an int-keyed dict
str_keys(notes) == [k \in {StrKey(d) : d \in DOMAIN notes} |-> notes[IntKey(k)]]

\* {int(k): int(v)} from a string-keyed dict
int_keys(sdict) == [d \in {IntKey(k) : k \in DOMAIN sdict} |-> sdict[StrKey(d)]]

\* for d in NOTE_DENOMS: notes.setdefault(d, 0)
set_defaults(notes) == [d \in (DOMAIN notes) \cup DenomSet |-> Get(notes, d)]

drawer_to_state(drawer) ==
    [bankjegyek |-> [k \in {StrKey(d) : d \in DenomSet} |-> Get(drawer.notes, IntKey(k))],
     apro |-> drawer.apro,
     osszesen |-> NotesValue(drawer.notes) + drawer.apro]

state_to_drawer(state) ==
    [notes |-> set_defaults(int_keys(state.bankjegyek)), apro |-> state.apro]

normalize_state(state) ==
    LET bankjegyek == [k \in {StrKey(d) : d \in DenomSet} \cup (DOMAIN state.bankjegyek) |->
                          IF k \in DOMAIN state.bankjegyek THEN state.bankjegyek[k] ELSE 0]
    IN [bankjegyek |-> bankjegyek,
        apro |-> state.apro,
        osszesen |-> NotesValue(int_keys(bankjegyek)) + state.apro]

\* files: day |-> None (no file) or Some(state)
save_state(files, day, state) == [files EXCEPT ![day] = Some(normalize_state(state))]

load_state(files, day) ==
    IF files[day].ok THEN Some(normalize_state(files[day].val)) ELSE None

EmptyState ==
    [bankjegyek |-> [k \in {StrKey(d) : d \in DenomSet} |-> 0], apro |-> 0, osszesen |-> 0]

\* ------------------------------------------------------------------ ledger
\* one line of the JSONL file: a serialized entry ("json"), a blank line
\* ("blank"), garbage ("corrupt"), or garbage that ends the file without a
\* newline ("partial", the rest of an interrupted write; last line only)
json_dumps(entry) == [text |-> "json", entry |-> entry]
json_loads(ln) == IF ln.text = "json" THEN Some(ln.entry) ELSE None
is_blank(ln) == ln.text = "blank"

\* append_txlog opening the file for writing instead of appending
append_txlog_overwrite(lines, entry) == <<json_dumps(entry)>>

\* f.write(line + "\n") in mode "a": behind an unterminated last line the text
\* continues that line
append_txlog(lines, entry) ==
    IF Len(lines) > 0 /\ lines[Len(lines)].text = "partial"
    THEN [lines EXCEPT ![Len(lines)] = [text |-> "corrupt"]]
    ELSE Append(lines, json_dumps(entry))

RECURSIVE last_nonblank(_, _)
\* index of the last non-blank line, 0 if there is none
last_nonblank(lines, i) ==
    IF i < 1 THEN 0
    ELSE IF ~is_blank(lines[i]) THEN i
    ELSE last_nonblank(lines, i - 1)

\* read_last_tx without the test for blank lines
read_last_tx_no_skip(lines) ==
    IF Len(lines) = 0 THEN None ELSE json_loads(lines[Len(lines)])

read_last_tx(lines) ==
    LET i == last_nonblank(lines, Len(lines))
    IN IF i = 0 THEN None ELSE json_loads(lines[i])

\* truncate_last_tx dropping the last line, blank or not
truncate_last_line(lines) ==
    IF Len(lines) = 0 THEN lines ELSE SubSeq(lines, 1, Len(lines) - 1)

\* truncate_last_tx keeping lines[1:] instead of lines[:i]
truncate_first_tx(lines) ==
    IF last_nonblank(lines, Len(lines)) = 0 THEN lines ELSE SubSeq(lines, 2, Len(lines))

truncate_last_tx(lines) ==
    LET i == last_nonblank(lines, Len(lines))
    IN IF i = 0 THEN lines ELSE SubSeq(lines, 1, i - 1)

\* entry written after a transaction without change (main, change == 0)
entry_no_change(ts, amount, tender_notes, tender_apro, drawer) ==
    [ts |-> ts,
     amount_due |-> amount,
     buyer_given |-> [notes |-> str_keys(tender_notes), apro |-> tender_apro],
     change |-> [notes |-> EmptyDict, apro |-> 0],
     delta |-> [notes |-> str_keys(tender_notes), apro |-> tender_apro],
     total_after |-> total(drawer)]

\* delta_notes_of without the returned notes
delta_notes_tender_only(tender_notes, notes_given) ==
    LET nz == {d \in DOMAIN tender_notes : tender_notes[d] # 0}
    IN [k \in {StrKey(d) : d \in nz} |-> tender_notes[IntKey(k)]]

\* delta_notes of main: tender - given, non-zero entries only
delta_notes_of(tender_notes, notes_given) ==
    LET keys == (DOMAIN tender_notes) \cup (DOMAIN notes_given)
        nz == {d \in keys : Get(tender_notes, d) - Get(notes_given, d) # 0}
    IN [k \in {StrKey(d) : d \in nz} |->
            Get(tender_notes, IntKey(k)) - Get(notes_given, IntKey(k))]

\* entry written after a transaction with change
entry_with_change(ts, amount, tender_notes, tender_apro, notes_given, apro_given, drawer) ==
    [ts |-> ts,
     amount_due |-> amount,
     buyer_given |-> [notes |-> str_keys(tender_notes), apro |-> tender_apro],
     change |-> [notes |-> str_keys(notes_given), apro |-> apro_given],
     delta |-> [notes |-> delta_notes_of(tender_notes, notes_given),
                apro |-> tender_apro - apro_given],
     total_after |-> total(drawer)]

\* undo_delta taking the pool part out of the target before the notes are checked
undo_delta_pool_first(target, last) ==
    LET delta_notes == int_keys(last.delta.notes)
        delta_apro == last.delta.apro
        pool_ok == target.apro - delta_apro >= 0
        apro2 == IF pool_ok THEN target.apro - delta_apro ELSE target.apro
        notes_ok == \A d \in DenomSet : Get(target.notes, d) - Get(delta_notes, d) >= 0
    IN [ok |-> pool_ok /\ notes_ok,
        target |-> [notes |-> IF pool_ok /\ notes_ok
                              THEN [d \in (DOMAIN target.notes) \cup DenomSet |->
                                       Get(target.notes, d) - Get(delta_notes, d)]
                              ELSE target.notes,
                    apro |-> apro2]]

\* undo_delta without the checks for negative results
undo_delta_unchecked(target, last) ==
    LET delta_notes == int_keys(last.delta.notes)
    IN [ok |-> TRUE,
        target |-> [notes |-> [d \in (DOMAIN target.notes) \cup DenomSet |->
                                  Get(target.notes, d) - Get(delta_notes, d)],
                    apro |-> target.apro - last.delta.apro]]

\* undo_delta that forgets the pool
undo_delta_notes_only(target, last) ==
    LET delta_notes == int_keys(last.delta.notes)
        notes_ok == \A d \in DenomSet : Get(target.notes, d) - Get(delta_notes, d) >= 0
    IN [ok |-> notes_ok,
        target |-> IF notes_ok
                   THEN [notes |-> [d \in (DOMAIN target.notes) \cup DenomSet |->
                                       Get(target.notes, d) - Get(delta_notes, d)],
                         apro |-> target.apro]
                   ELSE target]

\* undo_delta applying the delta once more instead of inverting it
undo_delta_add(target, last) ==
    LET delta_notes == int_keys(last.delta.notes)
        new_notes == [d \in (DOMAIN target.notes) \cup DenomSet |->
                         Get(target.notes, d) + Get(delta_notes, d)]
        new_apro == target.apro + last.delta.apro
    IN IF (\E d \in DenomSet : new_notes[d] < 0) \/ new_apro < 0
       THEN [ok |-> FALSE, target |-> target]
       ELSE [ok |-> TRUE, target |-> [notes |-> new_notes, apro |-> new_apro]]

\* the inverse application of :visszavon on the target Drawer: new_notes and
\* new_apro are computed aside and assigned only if no quantity goes negative
undo_delta(target, last) ==
    LET delta_notes == int_keys(last.delta.notes)
        delta_apro == last.delta.apro
        new_notes == [d \in (DOMAIN target.notes) \cup DenomSet |->
                         IF d \in DenomSet
                         THEN Get(target.notes, d) - Get(delta_notes, d)
                         ELSE target.notes[d]]
        new_apro == target.apro - delta_apro
    IN IF \E d \in DenomSet : new_notes[d] < 0
       THEN [ok |-> FALSE, target |-> target]
       ELSE IF new_apro < 0 THEN [ok |-> FALSE, target |-> target]
       ELSE [ok |-> TRUE, target |-> [notes |-> new_notes, apro |-> new_apro]]

\* ------------------------------------------------------------------ bounds
MaxLog == 2
MaxTotal == 1200

\* the calendar days with files under data/: date.today() and the day before
Today == "d2"
Yesterday == "d1"
Days == {Yesterday, Today}

\* inputs typed at the prompts
KezdetInputs ==
    { [notes |-> (500 :> 1) @@ (200 :> 2), apro |-> Some(150)] }

AmountInputs == {1000, 350, 7}

TenderInputs ==
    { [kind |-> "empty"],
      [kind |-> "vissza"],
      [kind |-> "bare", val |-> 1000],
      [kind |-> "parts", parts |-> << <<"pair", 500, 1>>, <<"apro", 50>> >>],
      [kind |-> "parts", parts |-> << <<"pair", 1000, 1>>, <<"apro", 3>> >>],
      [kind |-> "parts", parts |-> << <<"pair", 1000, 1>>, <<"bad">> >>] }

DayArgs == {None} \cup {Some(d) : d \in Days}

\* ------------------------------------------------------------------- state
VARIABLES
    drawer,     \* the live Drawer of main(): [notes, apro]
    files,      \* data/<day>_drawer.json, per day: None or Some(state)
    txlog,      \* data/<day>_txlog.jsonl, per day: sequence of lines
    tx_state,   \* the global _tx_state: None or Some(snapshot)
    pc,         \* position of main(): "idle" (amount prompt), "tender", "exited"
    amount,     \* the amount of the transaction in progress, 0 when none is open
    change,     \* the change due in the last resolved transaction, 0 otherwise
    outcome,    \* result of the last transaction or undo; "Ready" after other commands
    hist        \* history: the Drawer and log before the last successful transaction,
                \* and before the successful transactions that led to it in a row

vars == <<drawer, files, txlog, tx_state, pc, amount, change, outcome, hist>>

NoHist == [phase |-> "none"]

\* history when a transaction succeeds on Drawer d and today's log lines: the
\* state before it, on top of the states before the transactions that directly
\* preceded it (h is the history so far)
HistAfterTx(h, d, lines) ==
    [phase |-> "tx", drawer |-> d, lines |-> lines,
     stack |-> IF h.phase = "next"
               THEN Append(h.stack, [drawer |-> h.drawer, lines |-> h.lines])
               ELSE <<>>]

\* history after an undo without day argument: the state the undo should have
\* led back to, "undone" for the first undo after a transaction, "popped" for
\* the undos that follow it
HistAfterUndo(h) ==
    IF h.phase = "tx" THEN [h EXCEPT !.phase = "undone"]
    ELSE IF h.phase \in {"undone", "popped"} /\ h.stack # <<>>
    THEN [phase |-> "popped",
          drawer |-> h.stack[Len(h.stack)].drawer,
          lines |-> h.stack[Len(h.stack)].lines,
          stack |-> SubSeq(h.stack, 1, Len(h.stack) - 1)]
    ELSE NoHist

\* what data/ holds when main() starts: nothing, or the files left by a run of the
\* day before (a stocked till and one transaction with change)
EmptyDisk == [files |-> [d \in Days |-> None], txlog |-> [d \in Days |-> <<>>]]

YesterdayDisk ==
    LET d0 == [notes |-> [d \in DenomSet |-> IF d = 500 THEN 1 ELSE IF d = 200 THEN 2 ELSE 0],
               apro |-> 150]
        p == parse_tender([kind |-> "parts", parts |-> << <<"pair", 500, 1>>, <<"apro", 50>> >>])
        merged == [notes |-> add_notes(d0.notes, p.notes), apro |-> d0.apro + p.apro]
        eng == change_engine(tender_total_of(p) - 350, merged.notes, merged.apro)
        after == [notes |-> remove_notes(merged.notes, eng.val.notes_given,
                                         denom_order(eng.val.notes_given)).val,
                  apro |-> merged.apro - eng.val.apro_given]
        entry == entry_with_change(Yesterday, 350, p.notes, p.apro,
                                   eng.val.notes_given, eng.val.apro_given, after)
    IN [files |-> [d \in Days |-> IF d = Yesterday
                                  THEN Some(normalize_state(drawer_to_state(after)))
                                  ELSE None],
        txlog |-> [d \in Days |-> IF d = Yesterday THEN <<json_dumps(entry)>> ELSE <<>>]]

Init ==
    /\ drawer = EmptyDrawer
    /\ \E disk \in {EmptyDisk, YesterdayDisk} : files = disk.files /\ txlog = disk.txlog
    /\ tx_state = None
    /\ pc = "idle"
    /\ amount = 0
    /\ change = 0
    /\ outcome = "Ready"
    /\ hist = NoHist

\* ---------------------------------------------------------------- commands
\* :kezdet - input_initial_drawer, then save
Kezdet(inp) ==
    /\ pc = "idle"
    /\ LET d2 == [notes |-> [d \in DOMAIN drawer.notes |->
                                IF d \in DOMAIN inp.notes THEN inp.notes[d]
                                ELSE drawer.notes[d]],
                  apro |-> IF inp.apro.ok THEN inp.apro.val ELSE drawer.apro]
       IN /\ drawer' = d2
          /\ files' = save_state(files, Today, drawer_to_state(d2))
    /\ outcome' = "Ready"
    /\ hist' = NoHist
    /\ change' = 0
    /\ UNCHANGED <<txlog, tx_state, pc, amount>>

\* :ment
Ment ==
    /\ pc = "idle"
    /\ files' = save_state(files, Today, drawer_to_state(drawer))
    /\ outcome' = "Ready"
    /\ hist' = NoHist
    /\ change' = 0
    /\ UNCHANGED <<drawer, txlog, tx_state, pc, amount>>

\* :betolt YYYY-MM-DD
Betolt(day) ==
    /\ pc = "idle"
    /\ LET st == load_state(files, day)
       IN IF st.ok
          THEN drawer' = state_to_drawer(st.val) /\ outcome' = "Ready"
          ELSE drawer' = drawer /\ outcome' = "NoSavedState"
    /\ hist' = NoHist
    /\ change' = 0
    /\ UNCHANGED <<files, txlog, tx_state, pc, amount>>

\* reset_state of storage.py: the saved files after it
reset_state(fs, day) == save_state(fs, day, EmptyState)

\* :nullaz
Nullaz ==
    /\ pc = "idle"
    /\ files' = reset_state(files, Today)
    /\ drawer' = state_to_drawer(EmptyState)
    /\ outcome' = "Ready"
    /\ hist' = NoHist
    /\ change' = 0
    /\ UNCHANGED <<txlog, tx_state, pc, amount>>

\* :visszavon that works on the live Drawer also when a day is named
Visszavon_live(dayarg) ==
    /\ pc = "idle"
    /\ LET day == IF dayarg.ok THEN dayarg.val ELSE Today
           last == read_last_tx(txlog[day])
           st == load_state(files, day)
           res == undo_delta(drawer, last.val)
       IN IF ~last.ok
          THEN /\ outcome' = "NothingToUndo"
               /\ UNCHANGED <<drawer, files, txlog>>
          ELSE IF dayarg.ok /\ ~st.ok
          THEN /\ outcome' = "NoSavedState"
               /\ UNCHANGED <<drawer, files, txlog>>
          ELSE IF ~res.ok
          THEN /\ outcome' = "InconsistentLedger"
               /\ UNCHANGED <<drawer, files, txlog>>
          ELSE /\ outcome' = "Undone"
               /\ drawer' = res.target
               /\ files' = save_state(files, day, drawer_to_state(res.target))
               /\ txlog' = [txlog EXCEPT ![day] = truncate_last_tx(txlog[day])]
    /\ hist' = IF ~dayarg.ok THEN HistAfterUndo(hist)
               ELSE [phase |-> "day", day |-> dayarg.val]
    /\ change' = 0
    /\ UNCHANGED <<tx_state, pc, amount>>

\* :visszavon [day]
Visszavon(dayarg) ==
    /\ pc = "idle"
    /\ LET day == IF dayarg.ok THEN dayarg.val ELSE Today
           last == read_last_tx(txlog[day])
           st == load_state(files, day)
           target == IF dayarg.ok THEN state_to_drawer(st.val) ELSE drawer
           res == undo_delta(target, last.val)
       IN IF ~last.ok
          THEN /\ outcome' = "NothingToUndo"
               /\ UNCHANGED <<drawer, files, txlog>>
          ELSE IF dayarg.ok /\ ~st.ok
          THEN /\ outcome' = "NoSavedState"
               /\ UNCHANGED <<drawer, files, txlog>>
          ELSE IF ~res.ok
          THEN /\ outcome' = "InconsistentLedger"
               /\ drawer' = IF dayarg.ok THEN drawer ELSE res.target
               /\ UNCHANGED <<files, txlog>>
          ELSE /\ outcome' = "Undone"
               /\ IF dayarg.ok
                  THEN /\ drawer' = drawer
                       /\ files' = [files EXCEPT ![day] = Some(drawer_to_state(res.target))]
                  ELSE /\ drawer' = res.target
                       /\ files' = save_state(files, Today, drawer_to_state(res.target))
               /\ txlog' = [txlog EXCEPT ![day] = truncate_last_tx(txlog[day])]
    /\ hist' = IF ~dayarg.ok THEN HistAfterUndo(hist)
               ELSE [phase |-> "day", day |-> dayarg.val]
    /\ change' = 0
    /\ UNCHANGED <<tx_state, pc, amount>>

\* q / quit / exit
Quit ==
    /\ pc = "idle"
    /\ files' = save_state(files, Today, drawer_to_state(drawer))
    /\ pc' = "exited"
    /\ outcome' = "Exited"
    /\ hist' = NoHist
    /\ change' = 0
    /\ UNCHANGED <<drawer, txlog, tx_state, amount>>

\* a new run of main(): load Today's state, or start from an empty Drawer
Start ==
    /\ pc = "exited"
    /\ LET st == load_state(files, Today)
       IN drawer' = IF st.ok THEN state_to_drawer(st.val) ELSE EmptyDrawer
    /\ tx_state' = None
    /\ pc' = "idle"
    /\ outcome' = "Ready"
    /\ hist' = NoHist
    /\ change' = 0
    /\ UNCHANGED <<files, txlog, amount>>

\* ------------------------------------------------------------- transaction
start_tx_snapshot(d) == Some(drawer_to_state(d))

\* cancel_tx_restore that restores the notes only
cancel_tx_restore_notes_only(d, snap) ==
    IF ~snap.ok THEN d
    ELSE [notes |-> set_defaults(int_keys(snap.val.bankjegyek)), apro |-> 0]

\* the Drawer after cancel_tx_restore
cancel_tx_restore(d, snap) ==
    IF ~snap.ok THEN d
    ELSE [notes |-> set_defaults(int_keys(snap.val.bankjegyek)), apro |-> snap.val.apro]

\* finalize_tx_and_clear_snapshot without the assignment
finalize_tx_keep_snapshot == tx_state

finalize_tx_and_clear_snapshot == None

\* amount prompt: not a positive multiple of COIN_MIN_UNIT
BadAmount(a) ==
    /\ pc = "idle"
    /\ (a <= 0 \/ a % COIN_MIN_UNIT # 0)
    /\ outcome' = "Ready"
    /\ hist' = NoHist
    /\ change' = 0
    /\ UNCHANGED <<drawer, files, txlog, tx_state, pc, amount>>

\* amount prompt: a valid amount opens the transaction
StartTx(a) ==
    /\ pc = "idle"
    /\ a > 0 /\ a % COIN_MIN_UNIT = 0
    /\ Len(txlog[Today]) < MaxLog
    /\ total(drawer) <= MaxTotal
    /\ tx_state' = start_tx_snapshot(drawer)
    /\ amount' = a
    /\ pc' = "tender"
    /\ outcome' = "Open"
    /\ hist' = IF hist.phase = "tx" THEN [hist EXCEPT !.phase = "next"] ELSE NoHist
    /\ change' = 0
    /\ UNCHANGED <<drawer, files, txlog>>

\* tender prompt: empty input
TxAbort(t) ==
    /\ pc = "tender"
    /\ t.kind = "empty"
    /\ tx_state' = finalize_tx_and_clear_snapshot
    /\ pc' = "idle"
    /\ outcome' = "Aborted"
    /\ hist' = NoHist
    /\ change' = 0
    /\ amount' = 0
    /\ UNCHANGED <<drawer, files, txlog>>

\* tender prompt: :vissza
TxCancel(t) ==
    /\ pc = "tender"
    /\ t.kind = "vissza"
    /\ drawer' = cancel_tx_restore(drawer, tx_state)
    /\ tx_state' = None
    /\ pc' = "idle"
    /\ outcome' = "Cancelled"
    /\ hist' = NoHist
    /\ change' = 0
    /\ amount' = 0
    /\ UNCHANGED <<files, txlog>>

\* tender prompt: parse_tender raises
TxMalformed(t) ==
    /\ pc = "tender"
    /\ t.kind \notin {"empty", "vissza"}
    /\ ~parse_tender(t).ok
    /\ tx_state' = finalize_tx_and_clear_snapshot
    /\ pc' = "idle"
    /\ outcome' = "MalformedTender"
    /\ hist' = NoHist
    /\ change' = 0
    /\ amount' = 0
    /\ UNCHANGED <<drawer, files, txlog>>

\* the Drawer after add_notes / add_apro of the tender
merge_tender(d, p) ==
    [notes |-> add_notes(d.notes, p.notes), apro |-> add_apro(d.apro, p.apro).val]

\* TxShort with the tender merged before the total is compared
TxShort_merge_first(t) ==
    /\ pc = "tender"
    /\ t.kind \notin {"empty", "vissza"}
    /\ parse_tender(t).ok
    /\ tender_total_of(parse_tender(t)) < amount
    /\ drawer' = merge_tender(drawer, parse_tender(t))
    /\ tx_state' = finalize_tx_and_clear_snapshot
    /\ pc' = "idle"
    /\ outcome' = "TenderShort"
    /\ hist' = NoHist
    /\ change' = 0
    /\ amount' = 0
    /\ UNCHANGED <<files, txlog>>

\* tender prompt: tendered total below the amount
TxShort(t) ==
    /\ pc = "tender"
    /\ t.kind \notin {"empty", "vissza"}
    /\ parse_tender(t).ok
    /\ tender_total_of(parse_tender(t)) < amount
    /\ tx_state' = finalize_tx_and_clear_snapshot
    /\ pc' = "idle"
    /\ outcome' = "TenderShort"
    /\ hist' = NoHist
    /\ change' = 0
    /\ amount' = 0
    /\ UNCHANGED <<drawer, files, txlog>>

\* tender prompt: exact payment, no change
TxZeroChange(t) ==
    /\ pc = "tender"
    /\ t.kind \notin {"empty", "vissza"}
    /\ parse_tender(t).ok
    /\ LET p == parse_tender(t)
           merged == merge_tender(drawer, p)
       IN /\ tender_total_of(p) = amount
          /\ drawer' = merged
          /\ txlog' = [txlog EXCEPT ![Today] =
                          append_txlog(@, entry_no_change(Today, amount, p.notes, p.apro, merged))]
          /\ files' = save_state(files, Today, drawer_to_state(merged))
    /\ tx_state' = finalize_tx_and_clear_snapshot
    /\ pc' = "idle"
    /\ outcome' = "Success"
    /\ hist' = HistAfterTx(hist, drawer, txlog[Today])
    /\ change' = 0
    /\ amount' = 0

\* remove_change without the removal from the pool
remove_change_notes_only(d, notes_given, apro_given) ==
    LET n == IF notes_given # EmptyDict
             THEN remove_notes(d.notes, notes_given, denom_order(notes_given))
             ELSE Some(d.notes)
    IN [ok |-> n.ok, val |-> [notes |-> n.val, apro |-> d.apro]]

\* removing the computed change from Drawer d: ok and the Drawer afterwards,
\* or, if a removal raises, the Drawer it leaves behind (the pool is not
\* reached if the notes raise; the notes are out already if the pool raises).
\* notes_given is filled in the order of NOTE_DENOMS.
remove_change(d, notes_given, apro_given) ==
    LET n == IF notes_given # EmptyDict
             THEN remove_notes(d.notes, notes_given, denom_order(notes_given))
             ELSE Some(d.notes)
        a == IF apro_given # 0 THEN remove_apro(d.apro, apro_given)
             ELSE Some(d.apro)
    IN IF n.ok /\ a.ok THEN Some([notes |-> n.val, apro |-> a.val])
       ELSE [ok |-> FALSE, val |-> [notes |-> n.val, apro |-> d.apro]]

\* tender prompt: change is due and the engine finds a breakdown
TxChange(t) ==
    /\ pc = "tender"
    /\ t.kind \notin {"empty", "vissza"}
    /\ parse_tender(t).ok
    /\ LET p == parse_tender(t)
           merged == merge_tender(drawer, p)
           chg == tender_total_of(p) - amount
           eng == change_engine(chg, merged.notes, merged.apro)
           after == remove_change(merged, eng.val.notes_given, eng.val.apro_given)
       IN /\ chg > 0
          /\ change' = chg
          /\ eng.ok
          /\ IF after.ok
             THEN /\ drawer' = after.val
                  /\ txlog' = [txlog EXCEPT ![Today] =
                                  append_txlog(@, entry_with_change(Today, amount, p.notes, p.apro,
                                      eng.val.notes_given, eng.val.apro_given, after.val))]
                  /\ files' = save_state(files, Today, drawer_to_state(after.val))
                  /\ tx_state' = finalize_tx_and_clear_snapshot
                  /\ pc' = "idle"
                  /\ outcome' = "Success"
                  /\ hist' = HistAfterTx(hist, drawer, txlog[Today])
             ELSE \* uncaught exception: the run ends
                  /\ drawer' = after.val
                  /\ pc' = "exited"
                  /\ outcome' = "Crash"
                  /\ hist' = NoHist
                  /\ UNCHANGED <<txlog, files, tx_state>>
    /\ amount' = 0

\* reverse_tender that takes out the notes only
reverse_tender_notes_only(d, p) ==
    LET n == remove_notes(d.notes, p.notes, denom_order(p.notes))
    IN [ok |-> n.ok, val |-> [notes |-> n.val, apro |-> d.apro]]

\* taking the merged tender out of Drawer d again: ok and the Drawer
\* afterwards, or, if remove_notes raises, the Drawer it leaves behind;
\* remove_apro is guarded by try/except, remove_notes is not. The keys of the
\* tender are in d (add_notes has just put them there), so remove_notes meets
\* no missing key and the order in which the tender was typed has no effect.
reverse_tender(d, p) ==
    LET n == remove_notes(d.notes, p.notes, denom_order(p.notes))
        a == remove_apro(d.apro, p.apro)
    IN IF n.ok THEN Some([notes |-> n.val, apro |-> IF a.ok THEN a.val ELSE d.apro])
       ELSE [ok |-> FALSE, val |-> [notes |-> n.val, apro |-> d.apro]]

\* tender prompt: change is due and neither phase finds a breakdown
TxNoChange(t) ==
    /\ pc = "tender"
    /\ t.kind \notin {"empty", "vissza"}
    /\ parse_tender(t).ok
    /\ LET p == parse_tender(t)
           merged == merge_tender(drawer, p)
           chg == tender_total_of(p) - amount
           eng == change_engine(chg, merged.notes, merged.apro)
           back == reverse_tender(merged, p)
       IN /\ chg > 0
          /\ change' = chg
          /\ ~eng.ok
          /\ IF back.ok
             THEN /\ drawer' = back.val
                  /\ tx_state' = finalize_tx_and_clear_snapshot
                  /\ pc' = "idle"
                  /\ outcome' = "NoFeasibleChange"
             ELSE /\ drawer' = back.val
                  /\ tx_state' = tx_state
                  /\ pc' = "exited"
                  /\ outcome' = "Crash"
    /\ hist' = NoHist
    /\ amount' = 0
    /\ UNCHANGED <<files, txlog>>

Tender(t) ==
    \/ TxAbort(t)
    \/ TxCancel(t)
    \/ TxMalformed(t)
    \/ TxShort(t)
    \/ TxZeroChange(t)
    \/ TxChange(t)
    \/ TxNoChange(t)

\* ----------------------------------------------------------- specification
Next ==
    \/ \E inp \in KezdetInputs : Kezdet(inp)
    \/ Ment
    \/ \E day \in Days : Betolt(day)
    \/ Nullaz
    \/ \E dayarg \in DayArgs : Visszavon(dayarg)
    \/ Quit
    \/ Start
    \/ \E a \in AmountInputs : BadAmount(a)
    \/ \E a \in AmountInputs : StartTx(a)
    \/ \E t \in TenderInputs : Tender(t)

Spec == Init /\ [][Next]_vars

\* main() blocks in input() at the tender prompt and handles whatever line it
\* reads: an operator who answers the prompt is weak fairness of the tender step
TenderStep == \E t \in TenderInputs : Tender(t)

SpecLive == Spec /\ WF_vars(TenderStep)

\* ------------------------------------------- specification of the engine alone
\* Every open transaction over a range of stocks, pools and amounts, resolved by
\* one tender: the change engine on a wide set of (change, stock, pool).
MaxStock == 3
MaxPoolSteps == 3
MaxAmountSteps == 20

EngineDenoms == {2000, 1000, 500, 200}

EngineDrawers ==
    { [notes |-> [d \in DenomSet |-> IF d \in EngineDenoms THEN st[d] ELSE 0],
       apro |-> 50 * k] :
          st \in [EngineDenoms -> 0..MaxStock], k \in 0..MaxPoolSteps }

EngineAmounts == {50 * k : k \in 1..MaxAmountSteps}

EngineTenders == TenderInputs \cup {[kind |-> "bare", val |-> 2000]}

InitEngine ==
    /\ drawer \in EngineDrawers
    /\ amount \in EngineAmounts
    /\ change = 0
    /\ files = [d \in Days |-> IF d = Today
                              THEN Some(normalize_state(drawer_to_state(drawer)))
                              ELSE None]
    /\ txlog = [d \in Days |-> <<>>]
    /\ tx_state = start_tx_snapshot(drawer)
    /\ pc = "tender"
    /\ outcome = "Open"
    /\ hist = NoHist

NextEngine == \E t \in EngineTenders : Tender(t)

SpecEngine == InitEngine /\ [][NextEngine]_vars

\* ------------------------------- specification of the engine on larger stocks
\* Open transactions on tills that hold 5000s, 2000s and up to MaxSmall 200s,
\* resolved by one tender (a 10000 note among them).
MaxSmall == 5

PiecesDrawers ==
    { [notes |-> [d \in DenomSet |-> IF d = 5000 THEN c50
                                     ELSE IF d = 2000 THEN c20
                                     ELSE IF d = 200 THEN c2 ELSE 0],
       apro |-> a] :
          c50 \in 0..1, c20 \in 0..MaxStock, c2 \in 0..MaxSmall, a \in {0, 50} }

PiecesAmounts == {350, 4000, 10000}

PiecesTenders == EngineTenders \cup {[kind |-> "bare", val |-> 10000]}

InitPieces ==
    /\ drawer \in PiecesDrawers
    /\ amount \in PiecesAmounts
    /\ change = 0
    /\ files = [d \in Days |-> IF d = Today
                              THEN Some(normalize_state(drawer_to_state(drawer)))
                              ELSE None]
    /\ txlog = [d \in Days |-> <<>>]
    /\ tx_state = start_tx_snapshot(drawer)
    /\ pc = "tender"
    /\ outcome = "Open"
    /\ hist = NoHist

NextPieces == \E t \in PiecesTenders : Tender(t)

SpecPieces == InitPieces /\ [][NextPieces]_vars

\* ------------------------------------------- specification of the ledger alone
\* append_txlog, read_last_tx and truncate_last_tx called directly on log files
\* that may hold blank lines, garbage and the rest of an interrupted write.
MaxLines == 3

LedgerEntries ==
    {entry_no_change(Today, 1000, (1000 :> 1), 0,
                     [notes |-> [d \in DenomSet |-> IF d = 1000 THEN 1 ELSE 0], apro |-> 0]),
     entry_with_change(Today, 350, (500 :> 1), 50, (200 :> 1), 0,
                       [notes |-> [d \in DenomSet |-> IF d = 500 THEN 1 ELSE 0], apro |-> 50])}

FullLines ==
    {json_dumps(e) : e \in LedgerEntries} \cup {[text |-> "blank"], [text |-> "corrupt"]}

RECURSIVE LogsOfLen(_)
LogsOfLen(n) ==
    IF n = 0 THEN {<<>>}
    ELSE {Append(l, ln) : l \in LogsOfLen(n - 1), ln \in FullLines}

\* files of up to MaxLines lines; the last one may be unterminated
LedgerLogs ==
    LET full == UNION {LogsOfLen(n) : n \in 0..MaxLines}
        shorter == UNION {LogsOfLen(n) : n \in 0..(MaxLines - 1)}
    IN full \cup {Append(l, [text |-> "partial"]) : l \in shorter}

InitLedger ==
    /\ drawer = EmptyDrawer
    /\ files = EmptyDisk.files
    /\ \E l \in LedgerLogs : txlog = [d \in Days |-> IF d = Today THEN l ELSE <<>>]
    /\ tx_state = None
    /\ pc = "ledger"
    /\ amount = 0
    /\ change = 0
    /\ outcome = "Ready"
    /\ hist = NoHist

\* append_txlog(entry): today's file
AppendTx(e) ==
    /\ pc = "ledger"
    /\ Len(txlog[Today]) < MaxLines
    /\ txlog' = [txlog EXCEPT ![Today] = append_txlog(@, e)]
    /\ hist' = [phase |-> "appended", day |-> Today, before |-> txlog[Today]]
    /\ outcome' = "Ok"
    /\ UNCHANGED <<drawer, files, tx_state, pc, amount, change>>

\* read_last_tx(day)
ReadLast(day) ==
    /\ pc = "ledger"
    /\ hist' = [phase |-> "read", day |-> day, res |-> read_last_tx(txlog[day])]
    /\ outcome' = "Ok"
    /\ UNCHANGED <<drawer, files, txlog, tx_state, pc, amount, change>>

\* truncate_last_tx(day)
TruncateLast(day) ==
    /\ pc = "ledger"
    /\ txlog' = [txlog EXCEPT ![day] = truncate_last_tx(@)]
    /\ hist' = [phase |-> "truncated", day |-> day, before |-> txlog[day]]
    /\ outcome' = "Ok"
    /\ UNCHANGED <<drawer, files, tx_state, pc, amount, change>>

NextLedger ==
    \/ \E e \in LedgerEntries : AppendTx(e)
    \/ \E day \in Days : ReadLast(day)
    \/ \E day \in Days : TruncateLast(day)

SpecLedger == InitLedger /\ [][NextLedger]_vars

\* ------------------------------------------- specification of the Drawer alone
\* The methods of class Drawer and the change engine called directly, on Drawers
\* and arguments drawn from small sets (counts may be zero or negative).
MaxCount == 3
MaxApro == 150

DrawerInputs ==
    {[notes |-> [d \in DenomSet |-> IF d = 500 THEN c5 ELSE IF d = 200 THEN c2 ELSE 0],
      apro |-> a] : c5 \in 0..1, c2 \in 0..2, a \in {0, 50}}

BreakdownInputs ==
    {EmptyDict,
     (500 :> 1),
     (200 :> 2),
     (500 :> 1) @@ (200 :> 3),
     (500 :> 0),
     (500 :> -1),
     (500 :> 1) @@ (200 :> -1)}

AproInputs == {0, 50, -50}

ChangeInputs == {50, 200, 250, 400, 700}

\* counts and pool stay within the range explored
InRange(d) ==
    /\ \A x \in DOMAIN d.notes : d.notes[x] >= -MaxCount /\ d.notes[x] <= MaxCount
    /\ d.apro <= MaxApro

InitDrawer ==
    /\ drawer \in DrawerInputs
    /\ files = EmptyDisk.files
    /\ txlog = EmptyDisk.txlog
    /\ tx_state = None
    /\ pc = "drawer"
    /\ amount = 0
    /\ change = 0
    /\ outcome = "Ready"
    /\ hist = NoHist

\* drawer.add_notes(b)
AddNotes(b) ==
    /\ pc = "drawer"
    /\ InRange([drawer EXCEPT !.notes = add_notes(@, b)])
    /\ drawer' = [drawer EXCEPT !.notes = add_notes(@, b)]
    /\ outcome' = "Ok"
    /\ hist' = [phase |-> "add_notes"]
    /\ UNCHANGED <<files, txlog, tx_state, pc, amount, change>>

\* drawer.remove_notes(b), b iterated in any order of its keys
RemoveNotes(b) ==
    /\ pc = "drawer"
    /\ \E order \in Orders(b) :
          LET r == remove_notes(drawer.notes, b, order)
          IN /\ InRange([drawer EXCEPT !.notes = r.val])
             /\ drawer' = [drawer EXCEPT !.notes = r.val]
             /\ outcome' = IF r.ok THEN "Ok" ELSE r.error
    /\ hist' = [phase |-> "remove_notes"]
    /\ UNCHANGED <<files, txlog, tx_state, pc, amount, change>>

\* drawer.add_apro(a)
AddApro(a) ==
    /\ pc = "drawer"
    /\ LET r == add_apro(drawer.apro, a)
       IN IF r.ok
          THEN /\ InRange([drawer EXCEPT !.apro = r.val])
               /\ drawer' = [drawer EXCEPT !.apro = r.val]
               /\ outcome' = "Ok"
          ELSE /\ drawer' = drawer
               /\ outcome' = "ValueError"
    /\ hist' = [phase |-> "add_apro"]
    /\ UNCHANGED <<files, txlog, tx_state, pc, amount, change>>

\* drawer.remove_apro(a)
RemoveApro(a) ==
    /\ pc = "drawer"
    /\ LET r == remove_apro(drawer.apro, a)
       IN IF r.ok
          THEN /\ drawer' = [drawer EXCEPT !.apro = r.val]
               /\ outcome' = "Ok"
          ELSE /\ drawer' = drawer
               /\ outcome' = "ValueError"
    /\ hist' = [phase |-> "remove_apro"]
    /\ UNCHANGED <<files, txlog, tx_state, pc, amount, change>>

\* the engine's breakdown for c is taken out of the Drawer, as main() does
RemoveBreakdown(c) ==
    /\ pc = "drawer"
    /\ LET eng == change_engine(c, drawer.notes, drawer.apro)
           after == remove_change(drawer, eng.val.notes_given, eng.val.apro_given)
       IN /\ eng.ok
          /\ after.ok
          /\ drawer' = after.val
          /\ hist' = [phase |-> "removed", drawer |-> drawer,
                      notes_given |-> eng.val.notes_given,
                      apro_given |-> eng.val.apro_given]
    /\ outcome' = "Ok"
    /\ UNCHANGED <<files, txlog, tx_state, pc, amount, change>>

\* the breakdown just taken out is put back: add_notes, add_apro
AddBreakdown ==
    /\ pc = "drawer"
    /\ hist.phase = "removed"
    /\ drawer' = [notes |-> add_notes(drawer.notes, hist.notes_given),
                  apro |-> add_apro(drawer.apro, hist.apro_given).val]
    /\ hist' = [hist EXCEPT !.phase = "restored"]
    /\ outcome' = "Ok"
    /\ UNCHANGED <<files, txlog, tx_state, pc, amount, change>>

NextDrawer ==
    \/ \E b \in BreakdownInputs : AddNotes(b)
    \/ \E b \in BreakdownInputs : RemoveNotes(b)
    \/ \E a \in AproInputs : AddApro(a)
    \/ \E a \in AproInputs : RemoveApro(a)
    \/ \E c \in ChangeInputs : RemoveBreakdown(c)
    \/ AddBreakdown

SpecDrawer == InitDrawer /\ [][NextDrawer]_vars

\* ====================================================================== claims
\* the amounts that some stock-respecting combination of notes sums to
RECURSIVE NoteSums(_, _)
NoteSums(idx, stock) ==
    IF idx > Len(NOTE_DENOMS) THEN {0}
    ELSE LET d == NOTE_DENOMS[idx]
         IN {s + d * k : s \in NoteSums(idx + 1, stock), k \in 0..Get(stock, d)}

Representable(a, stock) == a \in NoteSums(1, stock)

\* some notes within stock plus a pool amount (multiple of the unit, within the
\* pool) sum to a
SplitExists(a, stock, apro) ==
    \E s \in NoteSums(1, stock) :
        s <= a /\ (a - s) % COIN_MIN_UNIT = 0 /\ a - s <= apro

\* the tenders of the model that parse, with change due at the open transaction
ChangeDue(t) ==
    /\ t.kind \notin {"empty", "vissza"}
    /\ parse_tender(t).ok
    /\ tender_total_of(parse_tender(t)) > amount

MergedFor(t) == merge_tender(drawer, parse_tender(t))
ChangeFor(t) == tender_total_of(parse_tender(t)) - amount

AllTenders == TenderInputs \cup EngineTenders \cup PiecesTenders

LastEntry == txlog[Today][Len(txlog[Today])].entry

\* C1: phase 1 is complete and sound. For the stock of every open transaction and
\* the change of every tender, bounded_change_notes returns a breakdown exactly
\* when some combination of notes within stock sums to the change, and the
\* breakdown it returns sums to the change and stays within stock.
C1_Phase1CompleteSound ==
    pc = "tender" =>
        \A t \in AllTenders :
            ChangeDue(t) =>
                LET stock == MergedFor(t).notes
                    a == ChangeFor(t)
                    res == bounded_change_notes(a, stock)
                IN /\ res.ok <=> Representable(a, stock)
                   /\ res.ok =>
                        /\ DOMAIN res.val \subseteq DenomSet
                        /\ NotesValue(res.val) = a
                        /\ \A d \in DOMAIN res.val :
                              res.val[d] >= 0 /\ res.val[d] <= stock[d]

\* a transaction that returned 3 x 200 while a 500 stayed in the drawer: the
\* search gave the 500 back
C1_Witness ==
    /\ outcome = "Success"
    /\ Len(txlog[Today]) > 0
    /\ LastEntry.change.apro = 0
    /\ int_keys(LastEntry.change.notes) = (200 :> 3)
    /\ drawer.notes[500] > 0

\* C2: every breakdown the engine returns is exact and feasible. Whenever a
\* transaction with change resolves with a breakdown, notes plus pool amount equal
\* the change, every count is within the merged stock, the pool amount is a
\* non-negative multiple of 5 within the merged pool, and the removal succeeds.
C2_BreakdownFeasible ==
    [][\A t \in AllTenders :
          TxChange(t) =>
              LET merged == MergedFor(t)
                  e == txlog'[Today][Len(txlog'[Today])].entry
                  given == int_keys(e.change.notes)
              IN /\ outcome' = "Success"
                 /\ Len(txlog'[Today]) = Len(txlog[Today]) + 1
                 /\ NotesValue(given) + e.change.apro = ChangeFor(t)
                 /\ \A d \in DOMAIN given :
                       given[d] >= 0 /\ given[d] <= Get(merged.notes, d)
                 /\ e.change.apro >= 0
                 /\ e.change.apro % COIN_MIN_UNIT = 0
                 /\ e.change.apro <= merged.apro
                 /\ drawer' = [notes |-> [d \in DenomSet |-> merged.notes[d] - Get(given, d)],
                               apro |-> merged.apro - e.change.apro]]_vars

\* a transaction resolved by phase 2 with notes and a pool amount
C2_Witness ==
    /\ outcome = "Success"
    /\ Len(txlog[Today]) > 0
    /\ LastEntry.change.apro > 0
    /\ LastEntry.change.notes # EmptyDict

\* C3: failure is definitive. A transaction ends NoFeasibleChange only when no
\* notes within the merged stock plus a pool amount within the merged pool sum
\* to the change.
C3_FailureDefinitive ==
    [][\A t \in AllTenders :
          TxNoChange(t) =>
              ~SplitExists(ChangeFor(t), MergedFor(t).notes, MergedFor(t).apro)]_vars

\* C4: undo inverse law. An undo without day argument issued right after a
\* successful transaction succeeds, leaves the Drawer as it was before that
\* transaction, and leaves today's log as it was before it, so that the last
\* record is again the one that was last before.
C4_UndoInverse ==
    hist.phase = "undone" =>
        /\ outcome = "Undone"
        /\ drawer = hist.drawer
        /\ txlog[Today] = hist.lines
        /\ read_last_tx(txlog[Today]) = read_last_tx(hist.lines)

\* an undo right after a transaction that was appended behind an earlier record
C4_Witness ==
    /\ hist.phase = "undone"
    /\ outcome = "Undone"
    /\ Len(hist.lines) > 0
    /\ total(hist.drawer) > 0

\* C5: no count and no pool amount is ever negative, hence the total is not.
C5_NonNegative ==
    /\ \A d \in DOMAIN drawer.notes : drawer.notes[d] >= 0
    /\ drawer.apro >= 0
    /\ total(drawer) >= 0

\* an undo was refused on a Drawer that holds less than the record's delta
C5_Witness ==
    /\ outcome = "InconsistentLedger"
    /\ \E d \in DenomSet : drawer.notes[d] = 0

\* C6: the pool of the Drawer is always a non-negative multiple of 5, and no
\* record of a successful transaction has a tendered pool amount that is not a
\* multiple of 5.
C6_PoolUnit ==
    /\ drawer.apro >= 0
    /\ drawer.apro % COIN_MIN_UNIT = 0
    /\ \A day \in Days : \A i \in 1..Len(txlog[day]) :
          txlog[day][i].entry.buyer_given.apro % COIN_MIN_UNIT = 0

\* a tender with a pool amount off the unit was refused, the pool is in use
C6_Witness ==
    /\ outcome = "NoFeasibleChange"
    /\ change % COIN_MIN_UNIT # 0
    /\ drawer.apro > 0

\* C7: a refused undo changes nothing: Drawer, saved states and logs stay.
C7_FailedUndoNoEffect ==
    [][(\E dayarg \in DayArgs : Visszavon(dayarg)) /\ outcome' = "InconsistentLedger"
          => /\ drawer' = drawer
             /\ files' = files
             /\ txlog' = txlog]_vars

\* an undo was refused although a record and a non-empty Drawer exist
C7_Witness ==
    /\ outcome = "InconsistentLedger"
    /\ total(drawer) > 0
    /\ Len(txlog[Today]) > 0

\* C8: when no change can be made the merged tender is taken out again: the
\* Drawer is the one of the transaction's start, nothing is logged, the
\* transaction is over without success.
C8_Compensation ==
    [][\A t \in AllTenders :
          TxNoChange(t) =>
              /\ outcome' = "NoFeasibleChange"
              /\ drawer' = drawer
              /\ drawer_to_state(drawer') = tx_state.val
              /\ txlog' = txlog
              /\ files' = files
              /\ pc' = "idle"]_vars

\* a transaction with change due ended without a breakdown
C8_Witness ==
    /\ outcome = "NoFeasibleChange"
    /\ change > 0
    /\ total(drawer) > 0

\* C9: a malformed or short tender ends the transaction with Drawer and log
\* untouched.
C9_RejectedTenderNoEffect ==
    [][\A t \in AllTenders :
          (TxMalformed(t) \/ TxShort(t)) =>
              /\ outcome' \in {"MalformedTender", "TenderShort"}
              /\ drawer' = drawer
              /\ drawer_to_state(drawer') = tx_state.val
              /\ txlog' = txlog
              /\ pc' = "idle"]_vars

\* a short tender was refused on a stocked Drawer
C9_Witness ==
    /\ outcome = "TenderShort"
    /\ total(drawer) > 0

\* C10: cancel leaves the Drawer as it was when the transaction was opened,
\* drops the snapshot and logs nothing.
C10_CancelRestores ==
    [][\A t \in AllTenders :
          TxCancel(t) =>
              /\ outcome' = "Cancelled"
              /\ drawer' = drawer
              /\ drawer_to_state(drawer') = tx_state.val
              /\ tx_state' = None
              /\ txlog' = txlog]_vars

\* a transaction on a stocked Drawer was cancelled
C10_Witness ==
    /\ outcome = "Cancelled"
    /\ ~tx_state.ok
    /\ drawer.apro > 0
    /\ total(drawer) > drawer.apro

\* ------------------------------------------------------------------ C11
\* the results with which the tender prompt closes a transaction
ResolvedOutcomes ==
    {"Success", "Cancelled", "Aborted", "MalformedTender", "TenderShort", "NoFeasibleChange"}

\* C11: a snapshot is live exactly while a transaction is open (none at the
\* amount prompt); every step out of an open transaction resolves it with one
\* result, discards the snapshot and returns to the amount prompt; and an open
\* transaction is eventually resolved.
C11_Lifecycle ==
    /\ [](tx_state.ok <=> pc = "tender")
    /\ [][pc = "tender" =>
             /\ pc' = "idle"
             /\ outcome' \in ResolvedOutcomes
             /\ ~tx_state'.ok]_vars
    /\ (pc = "tender" ~> pc = "idle")

\* a transaction with change due was resolved and the prompt is idle again
C11_Witness ==
    /\ pc = "idle"
    /\ outcome = "NoFeasibleChange"
    /\ ~tx_state.ok
    /\ change > 0

\* ------------------------------------------------------------------ C12
\* C12: remove_notes is all-or-nothing: with a requested count above the stock
\* it fails and no count changes; otherwise every named count goes down by the
\* requested amount and nothing else changes.
C12_RemoveAllOrNothing ==
    [][\A b \in BreakdownInputs :
          RemoveNotes(b) =>
              IF \E d \in DOMAIN b : b[d] > Get(drawer.notes, d)
              THEN /\ outcome' = "ValueError"
                   /\ drawer' = drawer
              ELSE /\ outcome' = "Ok"
                   /\ \A d \in DenomSet : drawer'.notes[d] = drawer.notes[d] - Get(b, d)
                   /\ DOMAIN drawer'.notes = DOMAIN drawer.notes
                   /\ drawer'.apro = drawer.apro]_vars

\* a removal was refused on a Drawer that holds notes
C12_Witness ==
    /\ hist.phase = "remove_notes"
    /\ outcome = "ValueError"
    /\ NotesValue(drawer.notes) > 0

\* ------------------------------------------------------------------ C13
\* C13: add_notes with a negative count fails and changes no count; with all
\* counts non-negative it succeeds and raises each named count by the amount.
C13_AddRejectsNegative ==
    [][\A b \in BreakdownInputs :
          AddNotes(b) =>
              IF \E d \in DOMAIN b : b[d] < 0
              THEN /\ outcome' = "ValueError"
                   /\ drawer' = drawer
              ELSE /\ outcome' = "Ok"
                   /\ \A d \in DenomSet : drawer'.notes[d] = drawer.notes[d] + Get(b, d)]_vars

\* ------------------------------------------------------------------ C19
\* C19: taking a breakdown of the change engine out of a Drawer and adding it
\* back gives the Drawer as it was, in every count and in the pool.
C19_RemoveAddRoundTrip ==
    hist.phase = "restored" => drawer = hist.drawer

\* a breakdown with notes and pool money went out and came back
C19_Witness ==
    /\ hist.phase = "restored"
    /\ hist.notes_given # EmptyDict
    /\ hist.apro_given > 0

\* ------------------------------------------------------------ C14 and C20
RECURSIVE NoteBreakdowns(_, _, _)
\* every count vector over NOTE_DENOMS[idx..] within stock that sums to a
NoteBreakdowns(idx, a, stock) ==
    IF idx > Len(NOTE_DENOMS) THEN (IF a = 0 THEN {EmptyDict} ELSE {})
    ELSE LET d == NOTE_DENOMS[idx]
         IN UNION { {Put(v, d, k) : v \in NoteBreakdowns(idx + 1, a - d * k, stock)} :
                       k \in 0..Min(a \div d, Get(stock, d)) }

RECURSIVE PieceCount(_, _)
PieceCount(v, S) ==
    IF S = {} THEN 0
    ELSE LET d == CHOOSE x \in S : TRUE
         IN Get(v, d) + PieceCount(v, S \ {d})

Pieces(v) == PieceCount(v, DenomSet)

\* v is greater than r at the first denomination, from 20000 down, where they differ
LexGreater(v, r) ==
    \E i \in 1..Len(NOTE_DENOMS) :
        /\ Get(v, NOTE_DENOMS[i]) > Get(r, NOTE_DENOMS[i])
        /\ \A j \in 1..(i - 1) : Get(v, NOTE_DENOMS[j]) = Get(r, NOTE_DENOMS[j])

\* C14: when phase 1 gives the change of a transaction, no other combination of
\* notes within stock that sums to the change has fewer pieces.
C14_Phase1FewestPieces ==
    [][\A t \in AllTenders :
          TxChange(t) =>
              LET stock == MergedFor(t).notes
                  res == bounded_change_notes(ChangeFor(t), stock)
              IN res.ok =>
                    \A v \in NoteBreakdowns(1, ChangeFor(t), stock) :
                        Pieces(res.val) <= Pieces(v)]_vars

\* C20: when phase 1 gives the change of a transaction, the breakdown is the
\* greatest count vector, compared from 20000 down to 200, among the
\* combinations within stock that sum to the change; it is the one logged.
C20_Phase1LexGreatest ==
    [][\A t \in AllTenders :
          TxChange(t) =>
              LET stock == MergedFor(t).notes
                  res == bounded_change_notes(ChangeFor(t), stock)
              IN res.ok =>
                    /\ res.val \in {positive_items(v) :
                                       v \in NoteBreakdowns(1, ChangeFor(t), stock)}
                    /\ \A v \in NoteBreakdowns(1, ChangeFor(t), stock) :
                          ~LexGreater(v, res.val)
                    /\ int_keys(LastEntry'.change.notes) = res.val
                    /\ LastEntry'.change.apro = 0]_vars

\* 1000 of change was given as one 1000 note although two 500s were in stock
C20_Witness ==
    /\ outcome = "Success"
    /\ change = 1000
    /\ Len(txlog[Today]) > 0
    /\ int_keys(LastEntry.change.notes) = (1000 :> 1)
    /\ drawer.notes[500] >= 2

\* ------------------------------------------------------------------ C15
\* C15: the record a successful transaction appends (zero change included)
\* holds the tender and the returned breakdown; its delta is tendered minus
\* returned for every denomination (absent = 0) and for the pool, which is the
\* difference of the Drawer after and before the transaction; its total_after
\* is the total of the Drawer after the transaction.
C15_RecordContent ==
    [][\A t \in AllTenders :
          (TxZeroChange(t) \/ (TxChange(t) /\ outcome' = "Success")) =>
              LET e == LastEntry'
                  given == int_keys(e.buyer_given.notes)
                  returned == int_keys(e.change.notes)
                  dl == int_keys(e.delta.notes)
              IN /\ given = parse_tender(t).notes
                 /\ e.buyer_given.apro = parse_tender(t).apro
                 /\ e.amount_due = amount
                 /\ DOMAIN dl \subseteq DenomSet
                 /\ \A d \in DenomSet : Get(dl, d) = Get(given, d) - Get(returned, d)
                 /\ e.delta.apro = e.buyer_given.apro - e.change.apro
                 /\ \A d \in DenomSet : Get(dl, d) = drawer'.notes[d] - drawer.notes[d]
                 /\ e.delta.apro = drawer'.apro - drawer.apro
                 /\ e.total_after = total(drawer')]_vars

\* a logged transaction with pool money tendered and notes and pool money returned
C15_Witness ==
    /\ outcome = "Success"
    /\ Len(txlog[Today]) > 0
    /\ LastEntry.buyer_given.apro > 0
    /\ LastEntry.change.notes # EmptyDict
    /\ LastEntry.change.apro > 0

\* ------------------------------------------------------------------ C16
\* C16: a transaction that ends in Success puts exactly one record at the end
\* of today's log and leaves the earlier lines, and the other days, as they
\* were; a transaction that ends otherwise and a refused undo leave the logs
\* unchanged.
C16_AppendOnly ==
    [][/\ (pc = "tender" /\ outcome' = "Success") =>
             /\ Len(txlog'[Today]) = Len(txlog[Today]) + 1
             /\ SubSeq(txlog'[Today], 1, Len(txlog[Today])) = txlog[Today]
             /\ read_last_tx(txlog'[Today]).ok
             /\ \A d \in Days \ {Today} : txlog'[d] = txlog[d]
       /\ (pc = "tender" /\ outcome' # "Success") => txlog' = txlog
       /\ outcome' = "InconsistentLedger" => txlog' = txlog]_vars

\* a second transaction of the day was logged behind the first
C16_Witness ==
    /\ outcome = "Success"
    /\ pc = "idle"
    /\ Len(txlog[Today]) = 2
    /\ txlog[Today][1] # txlog[Today][2]

\* ------------------------------------------------------------ C17 and C18
NonBlank(ln) == ~is_blank(ln)

\* the entries of a log file: its non-blank lines, in order
Entries(lines) == SelectSeq(lines, NonBlank)

IsValid(ln) == ln.text = "json"

\* C17: truncate_last_tx removes exactly the most recent entry of the day's
\* log: the entries before it stay, unchanged and in order, and the other day's
\* log stays; on a log without entries (empty, missing or blank) nothing changes.
C17_DropLast ==
    [][\A day \in Days :
          TruncateLast(day) =>
              LET old == Entries(txlog[day])
              IN /\ \A d \in Days \ {day} : txlog'[d] = txlog[d]
                 /\ IF old = <<>>
                    THEN txlog'[day] = txlog[day]
                    ELSE /\ Entries(txlog'[day]) = SubSeq(old, 1, Len(old) - 1)
                         /\ Len(txlog'[day]) < Len(txlog[day])
                         /\ txlog'[day] = SubSeq(txlog[day], 1, Len(txlog'[day]))]_vars

\* the last of two entries was dropped from a log that ended in a blank line
C17_Witness ==
    /\ hist.phase = "truncated"
    /\ Len(Entries(hist.before)) >= 2
    /\ is_blank(hist.before[Len(hist.before)])
    /\ Len(Entries(txlog[hist.day])) = Len(Entries(hist.before)) - 1

\* the most recently appended syntactically valid record of a log, if any
MostRecentValid(lines) ==
    LET valid == SelectSeq(lines, IsValid)
    IN IF valid = <<>> THEN None ELSE Some(valid[Len(valid)].entry)

\* C18 as stated: read_last_tx returns the most recently appended syntactically
\* valid record of the day's log, absent if there is none.
C18_ReadLastValid ==
    [][\A day \in Days :
          ReadLast(day) => hist'.res = MostRecentValid(txlog[day])]_vars

\* C18 amended: read_last_tx returns the record of the last non-blank line of
\* the day's log if that line is syntactically valid, and absent if the log is
\* missing, empty or blank or if that line is malformed, whatever stands before.
C18_ReadLastEntry ==
    [][\A day \in Days :
          ReadLast(day) =>
              LET es == Entries(txlog[day])
              IN hist'.res = IF es = <<>> THEN None
                             ELSE IF IsValid(es[Len(es)]) THEN Some(es[Len(es)].entry)
                             ELSE None]_vars

\* a record was read from a log that ends in a blank line and holds garbage
\* before the record
C18_Witness ==
    /\ hist.phase = "read"
    /\ hist.res.ok
    /\ Len(txlog[hist.day]) = 3
    /\ is_blank(txlog[hist.day][3])
    /\ txlog[hist.day][1].text = "corrupt"

\* ------------------------------------------------------------------ C21
\* C21: phase 2 is entered only if phase 1 fails. Whenever notes within the
\* merged stock sum to the change, the breakdown given takes nothing from the
\* pool: the pool after the transaction is the pool before plus the tendered
\* pool amount.
C21_Phase1First ==
    [][\A t \in AllTenders :
          (TxChange(t) /\ Representable(ChangeFor(t), MergedFor(t).notes)) =>
              /\ outcome' = "Success"
              /\ LastEntry'.change.apro = 0
              /\ NotesValue(int_keys(LastEntry'.change.notes)) = ChangeFor(t)
              /\ drawer'.apro = drawer.apro + parse_tender(t).apro]_vars

\* 600 of change went out as 3 x 200 although a 500 and 100 of pool money, the
\* greedy split, were at hand
C21_Witness ==
    /\ outcome = "Success"
    /\ change = 600
    /\ Len(txlog[Today]) > 0
    /\ int_keys(LastEntry.change.notes) = (200 :> 3)
    /\ LastEntry.change.apro = 0
    /\ drawer.notes[500] >= 1
    /\ drawer.apro >= 100

\* ------------------------------------------------------------------ C22
\* the value of the counts of v at the first n denominations, 20000 first
RECURSIVE PrefixValue(_, _)
PrefixValue(v, n) ==
    IF n = 0 THEN 0
    ELSE NOTE_DENOMS[n] * Get(v, NOTE_DENOMS[n]) + PrefixValue(v, n - 1)

\* v takes, from the largest denomination down, as many pieces as fit into what
\* is left of a and as the stock holds
IsGreedy(v, a, stock) ==
    \A i \in 1..Len(NOTE_DENOMS) :
        Get(v, NOTE_DENOMS[i]) =
            Min((a - PrefixValue(v, i - 1)) \div NOTE_DENOMS[i], Get(stock, NOTE_DENOMS[i]))

RECURSIVE GreedyRemainder(_, _, _)
\* what is left of a after taking, from NOTE_DENOMS[idx] down, as many pieces as
\* fit and as the stock holds
GreedyRemainder(idx, a, stock) ==
    IF idx > Len(NOTE_DENOMS) THEN a
    ELSE LET d == NOTE_DENOMS[idx]
         IN GreedyRemainder(idx + 1, a - d * Min(a \div d, Get(stock, d)), stock)

\* C22: when no notes-only breakdown of the change exists and the greedy
\* counts leave a remainder that is a multiple of 5 within the pool, the
\* transaction succeeds with exactly the greedy counts and the remainder from
\* the pool.
C22_GreedyAccepted ==
    [][\A t \in AllTenders :
          ((TxChange(t) \/ TxNoChange(t))
              /\ ~Representable(ChangeFor(t), MergedFor(t).notes)
              /\ GreedyRemainder(1, ChangeFor(t), MergedFor(t).notes) % COIN_MIN_UNIT = 0
              /\ GreedyRemainder(1, ChangeFor(t), MergedFor(t).notes) <= MergedFor(t).apro) =>
                 /\ outcome' = "Success"
                 /\ IsGreedy(int_keys(LastEntry'.change.notes), ChangeFor(t), MergedFor(t).notes)
                 /\ \A d \in DOMAIN LastEntry'.change.notes : LastEntry'.change.notes[d] > 0
                 /\ LastEntry'.change.apro =
                        GreedyRemainder(1, ChangeFor(t), MergedFor(t).notes)]_vars

\* 550 of change went out as one 500 and 50 from the pool
C22_Witness ==
    /\ outcome = "Success"
    /\ change = 550
    /\ Len(txlog[Today]) > 0
    /\ int_keys(LastEntry.change.notes) = (500 :> 1)
    /\ LastEntry.change.apro = 50

\* ------------------------------------------------------------------ C23
\* the pieces given back by the step-back loop in the transaction that tender
\* t resolves
RelaxedFor(t) ==
    LET g == greedy_notes(1, ChangeFor(t), [d \in DenomSet |-> 0], MergedFor(t).notes)
    IN relax_order(1, g.remaining, g.notes_used, MergedFor(t).apro)

\* C23: when the greedy split is rejected the pieces are given back from the
\* smallest denomination in use upward: no piece of a larger denomination is
\* given back before a piece of a smaller one.
C23_RelaxSmallestFirst ==
    [][\A t \in AllTenders :
          TxNoChange(t) =>
              \A i, j \in 1..Len(RelaxedFor(t)) :
                  i < j => RelaxedFor(t)[i] <= RelaxedFor(t)[j]]_vars

\* ------------------------------------------------------------------ C24
\* the greedy remainder of the transaction that tender t resolves passes the
\* pool test
GreedyPasses(t) ==
    LET r == GreedyRemainder(1, ChangeFor(t), MergedFor(t).notes)
    IN r % COIN_MIN_UNIT = 0 /\ r <= MergedFor(t).apro

\* C24: the step-back loop never changes the outcome. When no notes-only
\* breakdown exists, the transaction succeeds exactly if the greedy remainder
\* passes the pool test; if it does not, no step back passes it either and the
\* transaction ends with no feasible change.
C24_RelaxationNeverHelps ==
    [][\A t \in AllTenders :
          ((TxChange(t) \/ TxNoChange(t))
              /\ ~Representable(ChangeFor(t), MergedFor(t).notes)) =>
                 /\ (outcome' = "Success") <=> GreedyPasses(t)
                 /\ ~GreedyPasses(t) =>
                       /\ outcome' = "NoFeasibleChange"
                       /\ ~mixed_change(ChangeFor(t), MergedFor(t).notes, MergedFor(t).apro).ok]_vars

\* change of 650 was refused after the loop gave back a 500 and a 200: three
\* 200s and 50 of pool money were in the Drawer
C24_Witness ==
    /\ outcome = "NoFeasibleChange"
    /\ change = 650
    /\ drawer.notes[500] = 1
    /\ drawer.notes[200] = 3
    /\ drawer.apro = 50

\* ------------------------------------------------------------------ C25
\* C25: a transaction that ends in Success raises the Drawer's total by the
\* amount owed (the tendered total less the change returned); a transaction that
\* ends in any other way leaves the total as it was.
C25_ValueConservation ==
    [][\A t \in AllTenders :
          Tender(t) =>
              IF outcome' = "Success"
              THEN /\ total(drawer') = total(drawer) + amount
                   /\ total(drawer') =
                         total(drawer) + tender_total_of(parse_tender(t)) - change'
              ELSE total(drawer') = total(drawer)]_vars

\* a transaction returned change from notes and pool and the till is up by the
\* amount owed
C25_Witness ==
    /\ outcome = "Success"
    /\ change > 0
    /\ Len(txlog[Today]) > 0
    /\ LastEntry.change.apro > 0
    /\ LastEntry.change.notes # EmptyDict
    /\ total(drawer) >= LastEntry.amount_due

\* ------------------------------------------------------------------ C26
\* the Drawer an undo with argument dayarg works on, read from the given
\* saved states and live Drawer
UndoTarget(dayarg, fs, live) ==
    IF dayarg.ok THEN state_to_drawer(load_state(fs, dayarg.val).val) ELSE live

\* the undo with argument dayarg finds a record and a Drawer to work on
UndoApplies(dayarg) ==
    /\ read_last_tx(txlog[IF dayarg.ok THEN dayarg.val ELSE Today]).ok
    /\ dayarg.ok => load_state(files, dayarg.val).ok

\* C26: a successful undo lowers the total of the Drawer it works on by the
\* amount owed of the record it undoes, so that total was at least that amount;
\* on a Drawer that is all zero an undo that finds a record is refused.
C26_UndoLowersTotal ==
    [][\A dayarg \in DayArgs :
          (Visszavon(dayarg) /\ UndoApplies(dayarg)) =>
              LET last == read_last_tx(txlog[IF dayarg.ok THEN dayarg.val ELSE Today]).val
                  before == UndoTarget(dayarg, files, drawer)
              IN /\ outcome' \in {"Undone", "InconsistentLedger"}
                 /\ outcome' = "Undone" =>
                       /\ total(UndoTarget(dayarg, files', drawer')) =
                             total(before) - last.amount_due
                       /\ total(before) >= last.amount_due
                 /\ total(before) < last.amount_due => outcome' = "InconsistentLedger"
                 /\ total(before) = 0 => outcome' = "InconsistentLedger"]_vars

\* after a reset the log still holds a record and its undo was refused
C26_Witness ==
    /\ outcome = "InconsistentLedger"
    /\ total(drawer) = 0
    /\ Len(txlog[Today]) > 0
    /\ files[Today].ok

\* ------------------------------------------------------------------ C27
\* C27: undo is a stack over the day's log. After successful transactions in a
\* row, with no other edit of the Drawer, every successive undo without day
\* argument succeeds and leads back to the Drawer and the log before the
\* transaction it undoes, the last transaction first; an undo on the empty log
\* reports that nothing is to undo and changes nothing.
C27_UndoStack ==
    /\ [](hist.phase \in {"undone", "popped"} =>
             /\ outcome = "Undone"
             /\ drawer = hist.drawer
             /\ txlog[Today] = hist.lines)
    /\ [][(Visszavon(None) /\ txlog[Today] = <<>>) =>
             /\ outcome' = "NothingToUndo"
             /\ drawer' = drawer
             /\ files' = files
             /\ txlog' = txlog]_vars

\* two transactions in a row were undone one after the other: the Drawer and
\* the empty log from before the first are back
C27_Witness ==
    /\ hist.phase = "popped"
    /\ outcome = "Undone"
    /\ hist.stack = <<>>
    /\ txlog[Today] = <<>>
    /\ total(drawer) > 0

\* ------------------------------------------------------------------ C28
\* the Drawer held by the saved state of the day, in the given files
SavedDrawer(fs, day) == state_to_drawer(load_state(fs, day).val)

\* Drawer after is Drawer before less the delta of record last, count by count
\* and in the pool
LessDelta(after, before, last) ==
    /\ \A d \in DenomSet :
          Get(after.notes, d) = Get(before.notes, d) - Get(int_keys(last.delta.notes), d)
    /\ after.apro = before.apro - last.delta.apro

\* C28: a successful undo for a named day takes the delta of that day's last
\* record off that day's saved state, drops that record from that day's log,
\* and leaves the live Drawer, the other day's file and the other day's log as
\* they were, also when the named day is today; a successful undo without a
\* day takes the delta off the live Drawer and saves it as today's state, so
\* the live Drawer and today's saved state agree afterwards.
C28_UndoFrame ==
    [][\A dayarg \in DayArgs :
          (Visszavon(dayarg) /\ outcome' = "Undone") =>
              LET day == IF dayarg.ok THEN dayarg.val ELSE Today
                  last == read_last_tx(txlog[day]).val
              IN /\ Entries(txlog'[day]) =
                       SubSeq(Entries(txlog[day]), 1, Len(Entries(txlog[day])) - 1)
                 /\ \A o \in Days \ {day} : files'[o] = files[o] /\ txlog'[o] = txlog[o]
                 /\ files'[day].ok
                 /\ IF dayarg.ok
                    THEN /\ drawer' = drawer
                         /\ LessDelta(SavedDrawer(files', day), SavedDrawer(files, day), last)
                    ELSE /\ LessDelta(drawer', drawer, last)
                         /\ \A d \in DenomSet :
                               Get(SavedDrawer(files', Today).notes, d) = Get(drawer'.notes, d)
                         /\ SavedDrawer(files', Today).apro = drawer'.apro]_vars

\* an undo that named today succeeded: today's saved state is down by the
\* delta and the live Drawer still holds it
C28_Witness ==
    /\ outcome = "Undone"
    /\ hist.phase = "day"
    /\ hist.day = Today
    /\ files[Today].ok
    /\ total(drawer) > total(SavedDrawer(files, Today))

\* ============================================================ streamlit_app
\* The second front end. Every run of the script loads the Drawer from today's
\* saved state, handles at most one button or form, and saves what it changed:
\* its state is the files under data/.

\* the Drawer of a run: today's saved state, or an empty Drawer
streamlit_load(fs) ==
    LET st == load_state(fs, Today)
    IN IF st.ok THEN state_to_drawer(st.val) ELSE EmptyDrawer

\* "Visszavon" button, the inverse application: the loop over the notes stops
\* at the first negative count, the pool is tested in any case, and the Drawer
\* is assigned only if both tests passed
streamlit_undo_delta(d, last) ==
    LET delta_notes == int_keys(last.delta.notes)
        delta_apro == last.delta.apro
        new_notes == [k \in (DOMAIN d.notes) \cup DenomSet |->
                         IF k \in DenomSet
                         THEN Get(d.notes, k) - Get(delta_notes, k)
                         ELSE d.notes[k]]
        new_apro == d.apro - delta_apro
        ok == (\A k \in DenomSet : new_notes[k] >= 0) /\ new_apro >= 0
    IN IF ok THEN [ok |-> TRUE, target |-> [notes |-> new_notes, apro |-> new_apro]]
       ELSE [ok |-> FALSE, target |-> d]

\* "Visszavon" button on Drawer d and today's log lines: the outcome, the
\* Drawer and the log afterwards
streamlit_undo(d, lines) ==
    LET last == read_last_tx(lines)
        res == streamlit_undo_delta(d, last.val)
    IN IF ~last.ok
       THEN [outcome |-> "NothingToUndo", drawer |-> d, lines |-> lines]
       ELSE IF ~res.ok
       THEN [outcome |-> "InconsistentLedger", drawer |-> d, lines |-> lines]
       ELSE [outcome |-> "Undone", drawer |-> res.target,
             lines |-> truncate_last_tx(lines)]

\* the entry of the transaction form: one code path whether change is due or
\* not, delta.notes holds the non-zero differences only
streamlit_entry(ts, a, tender_notes, tender_apro, notes_given, apro_given, work_drawer) ==
    [ts |-> ts,
     amount_due |-> a,
     buyer_given |-> [notes |-> str_keys(tender_notes), apro |-> tender_apro],
     change |-> [notes |-> str_keys(notes_given), apro |-> apro_given],
     delta |-> [notes |-> delta_notes_of(tender_notes, notes_given),
                apro |-> tender_apro - apro_given],
     total_after |-> total(work_drawer)]

\* a run that ends without a record: Drawer d is left as it was
StFailed(msg, d) == [outcome |-> msg, drawer |-> d, change |-> 0, entry |-> None]

\* transaction form submitted with amount a and tender text t on Drawer d: the
\* outcome, the Drawer afterwards and the entry logged. The change is computed
\* on a copy (work_drawer) by the same two phases as in main().
streamlit_tx(d, a, t) ==
    IF a <= 0 \/ a % COIN_MIN_UNIT # 0 THEN StFailed("InvalidAmount", d)
    ELSE IF ~parse_tender(t).ok THEN StFailed("MalformedTender", d)
    ELSE LET p == parse_tender(t)
             tender_total == tender_total_of(p)
             work_drawer == merge_tender(d, p)
             chg == tender_total - a
             eng == change_engine(chg, work_drawer.notes, work_drawer.apro)
             after == remove_change(work_drawer, eng.val.notes_given, eng.val.apro_given)
         IN IF tender_total < a THEN StFailed("TenderShort", d)
            ELSE IF chg = 0
            THEN [outcome |-> "Success", drawer |-> work_drawer, change |-> 0,
                  entry |-> Some(streamlit_entry(Today, a, p.notes, p.apro,
                                                 EmptyDict, 0, work_drawer))]
            ELSE IF ~eng.ok
            THEN [StFailed("NoFeasibleChange", d) EXCEPT !.change = chg]
            ELSE IF ~after.ok
            THEN [StFailed("InternalError", d) EXCEPT !.change = chg]
            ELSE [outcome |-> "Success", drawer |-> after.val, change |-> chg,
                  entry |-> Some(streamlit_entry(Today, a, p.notes, p.apro,
                                     eng.val.notes_given, eng.val.apro_given, after.val))]

\* ------------------------------------- specification of the two front ends
\* An open transaction of main() on a till whose saved state equals the live
\* Drawer; the tender resolves it at the prompt, and streamlit_app runs on the
\* same files: its transaction form, its undo button, its initial-stock form,
\* its save button and its reset button. Either front end undoes the last
\* record. The Streamlit form records a transaction while the log holds fewer
\* than MaxFrontLog lines.
MaxFront == 1
MaxFrontLog == 1

FrontDenoms == {1000, 500, 200}

FrontDrawers ==
    { [notes |-> [d \in DenomSet |-> IF d \in FrontDenoms THEN st[d] ELSE 0],
       apro |-> 50 * k] :
          st \in [FrontDenoms -> 0..MaxFront], k \in 0..MaxFront }

FrontAmounts == {1000, 350}

\* "1000x1, 500x0": a pair with count zero
ZeroCountTender ==
    [kind |-> "parts", parts |-> << <<"pair", 1000, 1>>, <<"pair", 500, 0>> >>]

FrontTenders == TenderInputs \cup {ZeroCountTender}

InitFront ==
    /\ drawer \in FrontDrawers
    /\ amount \in FrontAmounts
    /\ change = 0
    /\ files = [d \in Days |-> IF d = Today
                              THEN Some(normalize_state(drawer_to_state(drawer)))
                              ELSE None]
    /\ txlog = [d \in Days |-> <<>>]
    /\ tx_state = start_tx_snapshot(drawer)
    /\ pc = "tender"
    /\ outcome = "Open"
    /\ hist = NoHist

\* what is typed into the form "Kezdőkészlet felvitele": the counts that are
\* changed (the other fields keep the counts of the loaded Drawer) and the pool
FrontKezdetInputs ==
    { [notes |-> (500 :> 1), apro |-> 50],
      [notes |-> (1000 :> 1) @@ (200 :> 0), apro |-> 3] }

\* streamlit_app: the form "Kezdőkészlet felvitele" is opened and submitted.
\* The counts go into the Drawer of the run; it is saved only if the pool typed
\* is a multiple of COIN_MIN_UNIT.
StreamlitKezdet(inp) ==
    /\ LET d == streamlit_load(files)
           d2 == [notes |-> [k \in DOMAIN d.notes |->
                                IF k \in DOMAIN inp.notes THEN inp.notes[k]
                                ELSE d.notes[k]],
                  apro |-> inp.apro]
       IN IF inp.apro % COIN_MIN_UNIT # 0
          THEN /\ outcome' = "InvalidApro"
               /\ files' = files
          ELSE /\ outcome' = "Ready"
               /\ files' = save_state(files, Today, drawer_to_state(d2))
    /\ hist' = NoHist
    /\ change' = 0
    /\ UNCHANGED <<drawer, txlog, tx_state, pc, amount>>

\* streamlit_app: the button "Ment (mai állapot)"
StreamlitMent ==
    /\ files' = save_state(files, Today, drawer_to_state(streamlit_load(files)))
    /\ outcome' = "Ready"
    /\ hist' = NoHist
    /\ change' = 0
    /\ UNCHANGED <<drawer, txlog, tx_state, pc, amount>>

\* streamlit_app: the button "Nulláz"
StreamlitNullaz ==
    /\ files' = reset_state(files, Today)
    /\ outcome' = "Ready"
    /\ hist' = NoHist
    /\ change' = 0
    /\ UNCHANGED <<drawer, txlog, tx_state, pc, amount>>

\* streamlit_app: the transaction form is submitted
StreamlitTx(a, t) ==
    /\ Len(txlog[Today]) < MaxFrontLog
    /\ total(streamlit_load(files)) <= MaxTotal
    /\ LET r == streamlit_tx(streamlit_load(files), a, t)
       IN /\ outcome' = r.outcome
          /\ change' = r.change
          /\ IF r.entry.ok
             THEN /\ txlog' = [txlog EXCEPT ![Today] = append_txlog(@, r.entry.val)]
                  /\ files' = save_state(files, Today, drawer_to_state(r.drawer))
             ELSE UNCHANGED <<txlog, files>>
    /\ hist' = NoHist
    /\ UNCHANGED <<drawer, tx_state, pc, amount>>

\* streamlit_app: the "Visszavon" button
StreamlitUndo ==
    /\ LET r == streamlit_undo(streamlit_load(files), txlog[Today])
       IN /\ outcome' = r.outcome
          /\ IF r.outcome = "Undone"
             THEN /\ files' = save_state(files, Today, drawer_to_state(r.drawer))
                  /\ txlog' = [txlog EXCEPT ![Today] = r.lines]
             ELSE UNCHANGED <<txlog, files>>
    /\ hist' = NoHist
    /\ change' = 0
    /\ UNCHANGED <<drawer, tx_state, pc, amount>>

NextFront ==
    \/ \E t \in FrontTenders : Tender(t)
    \/ \E a \in AmountInputs, t \in FrontTenders : StreamlitTx(a, t)
    \/ Visszavon(None)
    \/ StreamlitUndo
    \/ \E inp \in FrontKezdetInputs : StreamlitKezdet(inp)
    \/ StreamlitMent
    \/ StreamlitNullaz

SpecFront == InitFront /\ [][NextFront]_vars

\* ------------------------------------------------------------------ C29
\* entry e without its timestamp
NoTs(e) == [e EXCEPT !.ts = ""]

\* C29: the two front ends implement the same transaction and the same undo.
\* Whenever the prompt of main() resolves a tender that parses, the Streamlit
\* form on the same Drawer, amount and tender ends in success exactly if main()
\* does, leaves the same Drawer, and on success logs the same record but for
\* the timestamp; whenever main() handles :visszavon without a day, the
\* Streamlit button on the same Drawer and log succeeds exactly if main() does
\* and leaves the same Drawer and the same log.
C29_FrontEndsEquivalent ==
    /\ [][\A t \in FrontTenders :
             (Tender(t) /\ t.kind \notin {"empty", "vissza"} /\ parse_tender(t).ok) =>
                 LET r == streamlit_tx(drawer, amount, t)
                 IN /\ (outcome' = "Success") <=> (r.outcome = "Success")
                    /\ drawer' = r.drawer
                    /\ r.outcome = "Success" =>
                          /\ Len(txlog'[Today]) = Len(txlog[Today]) + 1
                          /\ NoTs(txlog'[Today][Len(txlog'[Today])].entry) = NoTs(r.entry.val)]_vars
    /\ [][Visszavon(None) =>
             LET r == streamlit_undo(drawer, txlog[Today])
             IN /\ (outcome' = "Undone") <=> (r.outcome = "Undone")
                /\ drawer' = r.drawer
                /\ txlog'[Today] = r.lines]_vars

====
